---------------------------- MODULE Spec2Model ----------------------------
(***************************************************************************)
(* Wavetable oscillator of src/src/main.rs (WaveTableOscillator).          *)
(*                                                                         *)
(* The oscillator's fields index and index_increment are Rust f32 values.  *)
(* They are modelled bit-exactly as IEEE-754 binary32 numbers: a finite    *)
(* value is (-1)^sgn * man * 2^exp with man < 2^24, every operation rounds *)
(* to nearest, ties to even, and infinities and NaN are kept as classes.   *)
(* All intermediate integers stay below 2^31.                              *)
(***************************************************************************)
EXTENDS Integers, Sequences, FiniteSets

VARIABLES
    sample_rate,        \* u32, field of the struct
    wave_table,         \* Vec<f32>, field of the struct
    index,              \* f32, the read position (the spec's "phase")
    index_increment,    \* f32, the step per sample (the spec's "phase_increment")
    op,                 \* the last operation: "new", "set_frequency", "next"
    arg,                \* the frequency given to the last set_frequency
    ret,                \* what the last Iterator::next returned
    pre,                \* the struct's fields as they were before the last operation
    reads,              \* the table indices the last lerp read
    calls,              \* the number of Iterator::next calls so far
    panicked            \* TRUE once a call has panicked (the thread unwinds)

vars == <<sample_rate, wave_table, index, index_increment, op, arg, ret, pre,
          reads, calls, panicked>>

-----------------------------------------------------------------------------
(* IEEE-754 binary32 *)

\* The significand of an f32 has 24 bits.
MantBits == 24
\* The exponent of the least significant bit of a subnormal f32: 2^-149.
MinExp == -149
\* The largest exponent of the least significant bit: (2^24 - 1) * 2^104 is f32::MAX.
MaxExp == 104

Pow2(n) == 2 ^ n

Max(a, b) == IF a >= b THEN a ELSE b

Fin(s, m, e) == [cls |-> "fin", sgn |-> s, man |-> m, exp |-> e]

Inf(s) == [cls |-> "inf", sgn |-> s, man |-> 0, exp |-> 0]

NaN == [cls |-> "nan", sgn |-> 0, man |-> 0, exp |-> 0]

Zero(s) == Fin(s, 0, 0)

IsNaN(x) == x.cls = "nan"

IsInf(x) == x.cls = "inf"

IsFin(x) == x.cls = "fin"

IsZero(x) == x.cls = "fin" /\ x.man = 0

\* The number of bits of M, 0 <= M < 2^31.
BitLen(M) ==
    IF M = 0 THEN 0
    ELSE CHOOSE k \in 1..31 : Pow2(k - 1) <= M /\ (k = 31 \/ M < Pow2(k))

\* A finite result, or the infinity it overflows to.
Pack(s, m, e) ==
    IF m = 0 THEN Zero(s)
    ELSE IF e > MaxExp THEN Inf(s)
    ELSE Fin(s, m, e)

\* The f32 nearest to (-1)^s * (M + t) * 2^E, ties to even, where 0 <= M < 2^31
\* and 0 < t < 1 if sticky, t = 0 if not. With sticky, M has more than 24 bits.
RoundPack(s, M, E, sticky) ==
    LET L  == BitLen(M)
        sh == Max(L - MantBits, MinExp - E)
    IN  IF M = 0 THEN Zero(s)
        ELSE IF sh <= 0 THEN Pack(s, M * Pow2(-sh), E + sh)
        ELSE IF sh > 30 THEN
            \* far below the smallest subnormal, or within one unit of it
            IF sh = 31 /\ (M > Pow2(30) \/ (M = Pow2(30) /\ sticky))
            THEN Fin(s, 1, E + sh) ELSE Zero(s)
        ELSE
            LET q    == M \div Pow2(sh)
                r    == M % Pow2(sh)
                half == Pow2(sh - 1)
                up   == r > half \/ (r = half /\ (sticky \/ q % 2 = 1))
                q1   == IF up THEN q + 1 ELSE q
            IN  IF q1 = Pow2(MantBits)
                THEN Pack(s, Pow2(MantBits - 1), E + sh + 1)
                ELSE Pack(s, q1, E + sh)

\* `n as f32` for an unsigned integer n < 2^31.
FromInt(n) == RoundPack(0, n, 0, FALSE)

FNeg(x) == IF IsNaN(x) THEN NaN ELSE [x EXCEPT !.sgn = 1 - x.sgn]

\* |a| < |b| for finite a, b.
MagLess(a, b) ==
    IF b.man = 0 THEN FALSE
    ELSE IF a.man = 0 THEN TRUE
    ELSE a.exp < b.exp \/ (a.exp = b.exp /\ a.man < b.man)

\* a + b for finite nonzero a, b with |a| >= |b|: three extra bits (guard, round,
\* sticky) under a's significand.
AddOrdered(a, b) ==
    LET d   == a.exp - b.exp
        Ma  == a.man * 8
        B8  == b.man * 8
        Mb  == IF d > 27 THEN 0 ELSE B8 \div Pow2(d)
        st  == IF d > 27 THEN TRUE ELSE B8 % Pow2(d) # 0
    IN  IF a.sgn = b.sgn THEN RoundPack(a.sgn, Ma + Mb, a.exp - 3, st)
        ELSE IF Ma = Mb /\ ~st THEN Zero(0)
        ELSE RoundPack(a.sgn, Ma - Mb - (IF st THEN 1 ELSE 0), a.exp - 3, st)

\* a + b in f32.
FAdd(a, b) ==
    IF IsNaN(a) \/ IsNaN(b) THEN NaN
    ELSE IF IsInf(a) THEN (IF IsInf(b) /\ b.sgn # a.sgn THEN NaN ELSE a)
    ELSE IF IsInf(b) THEN b
    ELSE IF IsZero(a) /\ IsZero(b) THEN Zero(IF a.sgn = 1 /\ b.sgn = 1 THEN 1 ELSE 0)
    ELSE IF IsZero(a) THEN b
    ELSE IF IsZero(b) THEN a
    ELSE IF MagLess(a, b) THEN AddOrdered(b, a)
    ELSE AddOrdered(a, b)

\* a - b in f32.
FSub(a, b) == FAdd(a, FNeg(b))

\* A finite nonzero x with its significand shifted up to 24 bits (a subnormal's
\* exponent then lies below MinExp).
Norm(x) ==
    LET k == MantBits - BitLen(x.man)
    IN  [x EXCEPT !.man = x.man * Pow2(k), !.exp = x.exp - k]

\* a * b in f32: the 48-bit product of the significands from 12-bit halves.
FMul(a, b) ==
    LET s == (a.sgn + b.sgn) % 2
    IN  IF IsNaN(a) \/ IsNaN(b) THEN NaN
        ELSE IF IsInf(a) \/ IsInf(b) THEN
            (IF IsZero(a) \/ IsZero(b) THEN NaN ELSE Inf(s))
        ELSE IF IsZero(a) \/ IsZero(b) THEN Zero(s)
        ELSE
            LET x   == Norm(a)
                y   == Norm(b)
                x1  == x.man \div 4096
                x0  == x.man % 4096
                y1  == y.man \div 4096
                y0  == y.man % 4096
                mid == x1 * y0 + x0 * y1
                t   == x0 * y0 + (mid % 4096) * 4096
                lo  == t % Pow2(24)
                hi  == x1 * y1 + mid \div 4096 + t \div Pow2(24)
            IN  RoundPack(s, hi * 16 + lo \div Pow2(20), x.exp + y.exp + 20,
                          lo % Pow2(20) # 0)

\* The quotient digits of r / d after k more binary places: <<quotient, remainder>>.
RECURSIVE LongDiv(_, _, _, _)
LongDiv(q, r, d, k) ==
    IF k = 0 THEN <<q, r>>
    ELSE IF 2 * r >= d THEN LongDiv(2 * q + 1, 2 * r - d, d, k - 1)
    ELSE LongDiv(2 * q, 2 * r, d, k - 1)

\* a / b in f32.
FDiv(a, b) ==
    LET s == (a.sgn + b.sgn) % 2
    IN  IF IsNaN(a) \/ IsNaN(b) THEN NaN
        ELSE IF IsInf(a) THEN (IF IsInf(b) THEN NaN ELSE Inf(s))
        ELSE IF IsInf(b) THEN Zero(s)
        ELSE IF IsZero(b) THEN (IF IsZero(a) THEN NaN ELSE Inf(s))
        ELSE IF IsZero(a) THEN Zero(s)
        ELSE
            LET x  == Norm(a)
                y  == Norm(b)
                qr == LongDiv(x.man \div y.man, x.man % y.man, y.man, 26)
            IN  RoundPack(s, qr[1], x.exp - y.exp - 26, qr[2] # 0)

\* 2^e mod n.
RECURSIVE Pow2Mod(_, _)
Pow2Mod(e, n) ==
    IF e <= 14 THEN Pow2(e) % n
    ELSE ((Pow2(14) % n) * Pow2Mod(e - 14, n)) % n

\* `x as usize`: truncation toward zero, saturating; NaN gives 0. Values of 2^30
\* and more (usize::MAX for +inf) are given as 2^30, past the end of every table.
AsUsize(x) ==
    IF IsNaN(x) THEN 0
    ELSE IF IsInf(x) THEN (IF x.sgn = 1 THEN 0 ELSE Pow2(30))
    ELSE IF x.sgn = 1 \/ x.man = 0 THEN 0
    ELSE IF x.exp >= 0 THEN (IF x.exp >= 7 THEN Pow2(30) ELSE x.man * Pow2(x.exp))
    ELSE IF -x.exp >= MantBits THEN 0
    ELSE x.man \div Pow2(-x.exp)

\* x % y in f32 (fmod: the result has the sign of x and is exact), for y the
\* f32 of a table length, an integer 0 <= n < 2^15.
FRem(x, y) ==
    LET n == AsUsize(y)
    IN  IF IsNaN(x) \/ IsNaN(y) \/ IsInf(x) \/ IsZero(y) THEN NaN
        ELSE IF IsZero(x) THEN x
        ELSE IF x.exp >= 0
        THEN RoundPack(x.sgn, ((x.man % n) * Pow2Mod(x.exp, n)) % n, 0, FALSE)
        ELSE IF AsUsize([x EXCEPT !.sgn = 0]) < n THEN x
        ELSE RoundPack(x.sgn, x.man % (n * Pow2(-x.exp)), x.exp, FALSE)

\* a < b, a <= b and a == b of f32: false when either is NaN; -0.0 == 0.0.
FLt(a, b) ==
    IF IsNaN(a) \/ IsNaN(b) THEN FALSE
    ELSE IF IsZero(a) /\ IsZero(b) THEN FALSE
    ELSE IF IsInf(a) THEN a.sgn = 1 /\ ~(IsInf(b) /\ b.sgn = 1)
    ELSE IF IsInf(b) THEN b.sgn = 0
    ELSE IF IsZero(a) THEN b.sgn = 0
    ELSE IF IsZero(b) THEN a.sgn = 1
    ELSE IF a.sgn # b.sgn THEN a.sgn = 1
    ELSE IF a.sgn = 0 THEN MagLess(a, b)
    ELSE MagLess(b, a)

FEq(a, b) ==
    IF IsNaN(a) \/ IsNaN(b) THEN FALSE
    ELSE IF IsZero(a) /\ IsZero(b) THEN TRUE
    ELSE a = b

FLe(a, b) == FLt(a, b) \/ FEq(a, b)

One == FromInt(1)

Half == Fin(0, Pow2(MantBits - 1), -MantBits)

-----------------------------------------------------------------------------
(* WaveTableOscillator *)

\* The struct, from the variables that hold its fields.
Self ==
    [sample_rate |-> sample_rate, wave_table |-> wave_table,
     index |-> index, index_increment |-> index_increment]

\* fn new(sample_rate, wave_table): nothing is validated.
new(rate, table) ==
    [sample_rate |-> rate, wave_table |-> table,
     index |-> Zero(0), index_increment |-> Zero(0)]

\* Mutant of IncrementFor: the table length and the sample rate exchanged.
IncrementSwapped(frequency, len, rate) ==
    FDiv(FMul(frequency, FromInt(rate)), FromInt(len))

\* frequency * self.wave_table.len() as f32 / self.sample_rate as f32
IncrementFor(frequency, len, rate) ==
    FDiv(FMul(frequency, FromInt(len)), FromInt(rate))

\* Mutant of set_frequency: a frequency change that also restarts the phase.
set_frequency_resets_phase(self, frequency) ==
    [self EXCEPT !.index = Zero(0),
                 !.index_increment =
                    IncrementFor(frequency, Len(self.wave_table), self.sample_rate)]

\* fn set_frequency(&mut self, frequency)
set_frequency(self, frequency) ==
    [self EXCEPT !.index_increment =
        IncrementFor(frequency, Len(self.wave_table), self.sample_rate)]

\* Mutant of NextIndex: the neighbour's index without the wrap to 0.
NextIndexNoWrap(truncated_index, len) == truncated_index + 1

\* (truncated_index + 1) % self.wave_table.len(), for len > 0.
NextIndex(truncated_index, len) == (truncated_index + 1) % len

\* self.wave_table[i]: the Vec is indexed from 0, the sequence from 1.
At(table, i) == table[i + 1]

\* fn lerp(&self): the value, the indices it reads, and whether it panics (the
\* remainder by a length of zero, or an index past the end of the Vec).
lerp(self) ==
    LET len             == Len(self.wave_table)
        truncated_index == AsUsize(self.index)
    IN  IF len = 0
        THEN [panic |-> TRUE, reads |-> <<>>, value |-> NaN]
        ELSE
            LET next_index             == NextIndex(truncated_index, len)
                next_index_weight      == FSub(self.index, FromInt(truncated_index))
                truncated_index_weight == FSub(One, next_index_weight)
            IN  IF truncated_index >= len
                THEN [panic |-> TRUE, reads |-> <<truncated_index>>, value |-> NaN]
                ELSE IF next_index >= len
                THEN [panic |-> TRUE, reads |-> <<truncated_index, next_index>>,
                      value |-> NaN]
                ELSE [panic |-> FALSE, reads |-> <<truncated_index, next_index>>,
                      value |->
                        FAdd(FMul(truncated_index_weight,
                                  At(self.wave_table, truncated_index)),
                             FMul(next_index_weight,
                                  At(self.wave_table, next_index)))]

\* Mutant of Advance: the step without the remainder.
AdvanceNoWrap(idx, increment, len) == FAdd(idx, increment)

\* self.index += self.index_increment; self.index %= self.wave_table.len() as f32
Advance(idx, increment, len) == FRem(FAdd(idx, increment), FromInt(len))

\* fn get_sample(&mut self): the struct after the call, the sample, the reads.
get_sample(self) ==
    LET l == lerp(self)
    IN  IF l.panic
        THEN [panic |-> TRUE, reads |-> l.reads, sample |-> NaN, self |-> self]
        ELSE [panic |-> FALSE, reads |-> l.reads, sample |-> l.value,
              self |-> [self EXCEPT !.index =
                  Advance(self.index, self.index_increment, Len(self.wave_table))]]

\* impl Source: the audio-source adapter.
channels == 1

Source_sample_rate == sample_rate

current_frame_len == <<"None">>

total_duration == <<"None">>

-----------------------------------------------------------------------------
(* Inputs of the model *)

\* The most Iterator::next calls of a run of Spec.
MaxCalls == 4
\* The most Iterator::next calls of a run of MainSpec.
MaxMainCalls == 1500

\* sin(2 pi n / 64) for n in 0..63, each the f32 nearest to the sine of the f32
\* argument 2.0 * PI * n as f32 / 64 as f32: what a correctly rounding sin gives.
NearestSineTable ==
    << Zero(0), Fin(0, 13155638, -27),
       Fin(0, 13092290, -26), Fin(0, 9740337, -25),
       Fin(0, 12840726, -25), Fin(0, 15817450, -25),
       Fin(0, 9320922, -24), Fin(0, 10643354, -24),
       Fin(0, 11863283, -24), Fin(0, 12968963, -24),
       Fin(0, 13949746, -24), Fin(0, 14796184, -24),
       Fin(0, 15500126, -24), Fin(0, 16054795, -24),
       Fin(0, 16454847, -24), Fin(0, 16696429, -24),
       Fin(0, 8388608, -23), Fin(0, 16696429, -24),
       Fin(0, 16454846, -24), Fin(0, 16054794, -24),
       Fin(0, 15500126, -24), Fin(0, 14796183, -24),
       Fin(0, 13949744, -24), Fin(0, 12968964, -24),
       Fin(0, 11863283, -24), Fin(0, 10643353, -24),
       Fin(0, 9320921, -24), Fin(0, 15817446, -25),
       Fin(0, 12840720, -25), Fin(0, 9740339, -25),
       Fin(0, 13092289, -26), Fin(0, 13155632, -27),
       Fin(1, 12303662, -47), Fin(1, 13155655, -27),
       Fin(1, 13092301, -26), Fin(1, 9740344, -25),
       Fin(1, 12840725, -25), Fin(1, 15817451, -25),
       Fin(1, 9320923, -24), Fin(1, 10643355, -24),
       Fin(1, 11863285, -24), Fin(1, 12968963, -24),
       Fin(1, 13949748, -24), Fin(1, 14796184, -24),
       Fin(1, 15500129, -24), Fin(1, 16054795, -24),
       Fin(1, 16454846, -24), Fin(1, 16696429, -24),
       Fin(1, 8388608, -23), Fin(1, 16696429, -24),
       Fin(1, 16454846, -24), Fin(1, 16054793, -24),
       Fin(1, 15500125, -24), Fin(1, 14796184, -24),
       Fin(1, 13949743, -24), Fin(1, 12968963, -24),
       Fin(1, 11863279, -24), Fin(1, 10643351, -24),
       Fin(1, 9320923, -24), Fin(1, 15817443, -25),
       Fin(1, 12840725, -25), Fin(1, 9740328, -25),
       Fin(1, 13092284, -26), Fin(1, 13155588, -27) >>

\* The f32 next to x, one unit in the last place up (d = 1) or down (d = -1) in
\* magnitude, for a finite x whose significand is not at the end of its binade.
Neighbour(x, d) == [x EXCEPT !.man = x.man + d]

\* A result of f32::sin for the exact result x: Rust leaves the precision of
\* f32::sin to the platform's libm, so the nearest f32 or either neighbour;
\* the exact values 0.0, 1.0 and -1.0 are returned as they are.
SinResults(x) ==
    IF IsZero(x) \/ x.man = Pow2(MantBits - 1) THEN {x}
    ELSE {x, Neighbour(x, 1), Neighbour(x, -1)}

\* The tables main can build: the nearest table, or it with one entry off by
\* one unit in the last place (glibc 2.36 builds the one whose entry 3 is
\* Fin(0, 9740338, -25)). Tables with several entries off are not enumerated.
SineTables ==
    { [NearestSineTable EXCEPT ![k] = v] :
        <<k, v>> \in UNION { {k} \X SinResults(NearestSineTable[k]) :
                              k \in 1..Len(NearestSineTable) } }

\* The table main builds with glibc 2.36.
GlibcSineTable == [NearestSineTable EXCEPT ![4] = Neighbour(NearestSineTable[4], 1)]

\* The sample rate and the frequency of main.
MainSampleRate == 44100

MainFrequency == FromInt(30)

\* Tables new() is given in Spec: the empty Vec, which new() accepts; one period
\* of a sine in four samples; three samples, a length that is no power of two;
\* and two of the tables main can build.
Tables ==
    { <<>>,
      <<Zero(0), One, Zero(0), FNeg(One)>>,
      <<Half, FNeg(One), One>>,
      NearestSineTable,
      GlibcSineTable }

\* Sample rates new() is given in Spec: zero, which new() accepts, a rate equal
\* to a table length, and main's.
SampleRates == {0, 4, MainSampleRate}

\* Frequencies set_frequency is given in Spec: negative, zero, fractional, whole,
\* and main's.
Frequencies == {FNeg(One), Zero(0), Half, FromInt(3), MainFrequency}

-----------------------------------------------------------------------------
(* Operations *)

Installed(self) ==
    /\ sample_rate' = self.sample_rate
    /\ wave_table' = self.wave_table
    /\ index' = self.index
    /\ index_increment' = self.index_increment

\* The state after WaveTableOscillator::new(rate, table).
Constructed(rate, table) ==
    /\ sample_rate = new(rate, table).sample_rate
    /\ wave_table = new(rate, table).wave_table
    /\ index = new(rate, table).index
    /\ index_increment = new(rate, table).index_increment
    /\ op = "new"
    /\ arg = <<>>
    /\ ret = <<>>
    /\ pre = new(rate, table)
    /\ reads = <<>>
    /\ calls = 0
    /\ panicked = FALSE

Init == \E rate \in SampleRates, table \in Tables : Constructed(rate, table)

\* oscillator.set_frequency(frequency)
CallSetFrequency(frequency) ==
    /\ ~panicked
    /\ Installed(set_frequency(Self, frequency))
    /\ op' = "set_frequency"
    /\ arg' = <<frequency>>
    /\ ret' = <<"()">>
    /\ pre' = Self
    /\ reads' = <<>>
    /\ UNCHANGED <<calls, panicked>>

\* Iterator::next: Some(self.get_sample()), or the panic of get_sample.
CallNext ==
    /\ ~panicked
    /\ LET r == get_sample(Self)
       IN  /\ Installed(r.self)
           /\ ret' = IF r.panic THEN <<"panic">> ELSE <<"Some", r.sample>>
           /\ reads' = r.reads
           /\ panicked' = r.panic
    /\ op' = "next"
    /\ pre' = Self
    /\ calls' = calls + 1
    /\ UNCHANGED arg

Next ==
    \/ \E frequency \in Frequencies : CallSetFrequency(frequency)
    \/ calls < MaxCalls /\ CallNext

Spec == Init /\ [][Next]_vars

\* main: new(44100, a table of 64 sines), set_frequency(30.0), and then the
\* playback thread pulls samples for as long as the process lives.
MainInit == \E table \in SineTables : Constructed(MainSampleRate, table)

MainSetFrequency == op = "new" /\ CallSetFrequency(MainFrequency)

MainPull == op # "new" /\ calls < MaxMainCalls /\ CallNext

MainNext == MainSetFrequency \/ MainPull

MainSpec == MainInit /\ [][MainNext]_vars


-----------------------------------------------------------------------------
(* Exact comparisons for the claims: naturals as little-endian sequences of     *)
(* 13-bit limbs, since the products compared do not fit 31 bits.                *)

LimbBase == Pow2(13)

\* u * r for u < 2^26, r < 2^17.
BigMulSmall(u, r) ==
    LET p0   == (u % LimbBase) * r
        p1   == (u \div LimbBase) * r + p0 \div LimbBase
        rest == p1 \div LimbBase
    IN  <<p0 % LimbBase, p1 % LimbBase, rest % LimbBase, rest \div LimbBase>>

\* a * 2^k for a < 2^17, k >= 0.
BigShift(a, k) ==
    LET v == a * Pow2(k % 13)
    IN  [i \in 1..(k \div 13) |-> 0]
        \o <<v % LimbBase, (v \div LimbBase) % LimbBase, v \div (LimbBase * LimbBase)>>

Limb(a, i) == IF i <= Len(a) THEN a[i] ELSE 0

\* a <= b.
BigLe(a, b) ==
    LET n == Max(Len(a), Len(b))
    IN  \/ \A i \in 1..n : Limb(a, i) = Limb(b, i)
        \/ \E i \in 1..n : /\ Limb(a, i) < Limb(b, i)
                           /\ \A j \in (i + 1)..n : Limb(a, j) = Limb(b, j)

\* m * 2^e with the trailing zero bits of m # 0 moved into the exponent.
RECURSIVE Strip(_, _)
Strip(m, e) == IF m % 2 = 0 THEN Strip(m \div 2, e + 1) ELSE <<m, e>>

\* x is f * n / r to within half a unit in the last place of x, for a finite f
\* and naturals n, r; by IEEE-754 it is NaN for 0 / 0 and an infinity for a
\* nonzero numerator over r = 0.
WithinHalfUlp(x, f, n, r) ==
    IF r = 0 THEN (IF IsZero(f) \/ n = 0 THEN IsNaN(x) ELSE x = Inf(f.sgn))
    ELSE IF IsZero(f) \/ n = 0 THEN x = Zero(f.sgn)
    ELSE
        /\ IsFin(x) /\ x.man >= Pow2(MantBits - 1) /\ x.sgn = f.sgn
        /\ LET st == Strip(f.man, f.exp)
               k  == st[2] - x.exp + 1
               y  == BigShift(st[1] * n, k)
           IN  /\ k >= 0
               /\ BigLe(BigMulSmall(2 * x.man - 1, r), y)
               /\ BigLe(y, BigMulSmall(2 * x.man + 1, r))

\* 0 <= x < n in f32.
InRange(x, n) == FLe(Zero(0), x) /\ FLt(x, FromInt(n))

\* The integer as an f32.
SignedF(i) == IF i < 0 THEN FNeg(FromInt(-i)) ELSE FromInt(i)

\* floor(x) for a finite x; 0 for NaN.
FloorInt(x) ==
    IF IsNaN(x) \/ IsZero(x) THEN 0
    ELSE IF x.sgn = 0 THEN AsUsize(x)
    ELSE LET t == AsUsize(FNeg(x))
         IN  IF FromInt(t) = FNeg(x) THEN -t ELSE -t - 1

\* (1 - w) * table[i0] + w * table[(i0 + 1) mod n] in f32, read cyclically.
Interpolate(table, i0, w) ==
    LET n == Len(table)
    IN  FAdd(FMul(FSub(One, w), At(table, i0 % n)),
             FMul(w, At(table, (i0 + 1) % n)))

\* Every entry of the table lies in [-1, 1].
TableInUnit(table) ==
    \A i \in 1..Len(table) : FLe(FNeg(One), table[i]) /\ FLe(table[i], One)

\* The number of samples in one period of main's tone: 44100 / 30.
MainPeriod == MainSampleRate \div AsUsize(MainFrequency)

\* The tolerance of the period check: 2^-10.
Tol == Fin(0, Pow2(MantBits - 1), -33)

\* x is within Tol of 0 on the cycle of length n.
NearStart(x, n) == FLe(x, Tol) \/ FLe(FSub(FromInt(n), Tol), x)

-----------------------------------------------------------------------------
(* Claims *)

\* C1 (as claimed; refuted by the code): for a table of length N >= 1 and a
\* sample rate > 0, the read position satisfies 0 <= index < N in every
\* reachable state, for positive, zero and negative frequencies.
C1_PhaseInRange ==
    (Len(wave_table) >= 1 /\ sample_rate > 0) => InRange(index, Len(wave_table))

\* C2: a new oscillator has index = 0 and index_increment = 0, and right after
\* set_frequency(f) the increment is f * N / R (to within half a unit in the
\* last place of the f32), whatever the increment was before.
C2_IncrementMapping ==
    /\ op = "new" => index = Zero(0) /\ index_increment = Zero(0)
    /\ op = "set_frequency" =>
         WithinHalfUlp(index_increment, arg[1], Len(wave_table), sample_rate)

\* C2 witness: main's instance, 30 * 64 / 44100 = 0.04353741..., set over a
\* different, nonzero increment.
C2_Witness ==
    /\ op = "set_frequency" /\ arg = <<MainFrequency>>
    /\ sample_rate = MainSampleRate /\ Len(wave_table) = 64
    /\ index_increment = Fin(0, 11686986, -28)
    /\ ~IsZero(pre.index_increment)
    /\ pre.index_increment # index_increment

\* C3 (as claimed; refuted by the code): every next returns
\* (1 - w) * table[i0] + w * table[(i0 + 1) mod N] with i0 = floor(index) and
\* w = index - i0 taken from the index before the call's advance.
C3_InterpolatedOutput ==
    (op = "next" /\ Len(pre.wave_table) >= 1 /\ pre.sample_rate > 0) =>
        LET i0 == FloorInt(pre.index)
            w  == FSub(pre.index, SignedF(i0))
        IN  ret = <<"Some", Interpolate(pre.wave_table, i0, w)>>

\* C4: no index the interpolation reads lies past the end of the table, and a
\* next with the index in [N-1, N) interpolates between table[N-1] and table[0].
C4_WraparoundClosure ==
    /\ \A k \in 1..Len(reads) : reads[k] \in 0..(Len(wave_table) - 1)
    /\ LET n == Len(pre.wave_table)
       IN  (/\ op = "next" /\ n >= 1
            /\ FLe(FromInt(n - 1), pre.index) /\ FLt(pre.index, FromInt(n))) =>
              /\ reads = <<n - 1, 0>>
              /\ LET w == FSub(pre.index, FromInt(n - 1))
                 IN  ret = <<"Some", FAdd(FMul(FSub(One, w), At(pre.wave_table, n - 1)),
                                          FMul(w, At(pre.wave_table, 0)))>>

\* C4 witness: a next at a fractional index in the last cell of a table of
\* two or more entries.
C4_Witness ==
    /\ op = "next" /\ Len(wave_table) >= 2
    /\ FLt(FromInt(Len(wave_table) - 1), pre.index)
    /\ FLt(pre.index, FromInt(Len(wave_table)))
    /\ reads = <<Len(wave_table) - 1, 0>>
    /\ ret[1] = "Some"

\* C5 (as claimed; refuted by the code): in main's instance the index is back
\* at 0 after exactly 1470 calls.
C5_ExactReturn ==
    (op = "next" /\ calls = MainPeriod) => FEq(index, Zero(0))

\* C5 (amended): each next sets index to the f32 remainder of index +
\* index_increment by N; in main's instance the index after 1470 calls is within
\* 2^-10 of its start on the cycle (just below the wrap at 64, not 0 itself), it
\* is not that close after any of the calls 1..1469, and it is never 0 again.
C5_PeriodicAdvance ==
    /\ (op = "next" /\ ~panicked) =>
         index = FRem(FAdd(pre.index, pre.index_increment), FromInt(Len(wave_table)))
    /\ (op = "next" /\ calls = MainPeriod) => NearStart(index, Len(wave_table))
    /\ (op = "next" /\ calls \in 1..(MainPeriod - 1)) =>
         ~NearStart(index, Len(wave_table))
    /\ op = "next" => ~IsZero(index)

\* C5 witness: the index after 1470 calls, 63.999664306640625.
C5_Witness ==
    op = "next" /\ calls = MainPeriod /\ index = Fin(0, 16777128, -18)

\* C6 (as claimed; refuted by the code): no next call aborts, for any table
\* and sample rate new() accepts.
C6_NoAbort == ~panicked

\* C7 (as claimed; refuted by the code): every pull yields Some(sample), and
\* the adapter reports 1 channel, the construction-time sample rate, and no
\* frame length and no total duration.
C7_UnboundedPull ==
    /\ op = "next" => ret[1] = "Some"
    /\ channels = 1
    /\ Source_sample_rate = pre.sample_rate
    /\ current_frame_len = <<"None">>
    /\ total_duration = <<"None">>

\* C8 (as claimed; refuted by the code): with a negative increment, next
\* returns the interpolation of the table at the cyclic position of the index
\* taken in [0, N).
C8_ReversedPlayback ==
    (/\ op = "next" /\ Len(pre.wave_table) >= 1 /\ pre.sample_rate > 0
     /\ FLt(pre.index_increment, Zero(0))) =>
        LET n   == Len(pre.wave_table)
            pos == IF FLt(pre.index, Zero(0)) THEN FAdd(pre.index, FromInt(n))
                   ELSE pre.index
        IN  ret = <<"Some", lerp([pre EXCEPT !.index = pos]).value>>

\* C9: next changes only index, set_frequency changes only index_increment, and
\* no operation changes sample_rate or wave_table.
C9_FrameConditions ==
    [][/\ sample_rate' = sample_rate
       /\ wave_table' = wave_table
       /\ op' = "next" => index_increment' = index_increment
       /\ op' = "set_frequency" => index' = index]_vars

\* C9 witness: a set_frequency that changed the increment of an oscillator
\* whose index had moved off 0.
C9_Witness ==
    /\ op = "set_frequency" /\ calls >= 1
    /\ ~IsZero(index) /\ index = pre.index
    /\ index_increment # pre.index_increment

\* C10 (as claimed; refuted by the code): with every table entry in [-1, 1],
\* every sample next returns lies in [-1, 1].
C10_AmplitudeBound ==
    (/\ op = "next" /\ Len(ret) = 2 /\ pre.sample_rate > 0
     /\ TableInUnit(pre.wave_table)) =>
        FLe(FNeg(One), ret[2]) /\ FLe(ret[2], One)

=============================================================================
